---- MODULE Spec2Model ----
(***************************************************************************)
(* Model of order-compare-streamlit: parse_orders.parse_items (the table   *)
(* scan of the pdftotext output), order_compare.compare_orders (the keyed  *)
(* comparison of two documents) and the two front ends that chain them     *)
(* (app.py, api.py).                                                       *)
(*                                                                         *)
(* Text is modelled as TLA+ strings, character by character.  A float is   *)
(* modelled as an exact integer count of hundredths (12.5 is 1250), so     *)
(* the arithmetic of the comparator is exact; rounding, NaN, infinities    *)
(* and the exponent spellings of float() are outside the modelled values.  *)
(***************************************************************************)
EXTENDS Integers, Sequences, FiniteSets, TLC

VARIABLES
    original,       \* compare_orders: the `original` argument
    confirmation,   \* compare_orders: the `confirmation` argument
    tolerance,      \* compare_orders: the `tolerance` argument
    report,         \* compare_orders: what the call produced
    cmp_pc,         \* "ready" before the call, "returned" / "raised" after
    lines,          \* parse_items: raw_text.split("\n")
    line_no,        \* parse_items: index of the next line of the for loop
    table_started,  \* parse_items: the table_started flag
    items,          \* parse_items: the items list
    scan_pc,        \* "scan" inside the loop, "broke" after break, "returned"
    files,          \* front ends: the file system, path -> uploaded document
    sess            \* front ends: one record per running invocation

vars == <<original, confirmation, tolerance, report, cmp_pc,
          lines, line_no, table_started, items, scan_pc, files, sess>>

cmp_vars == <<original, confirmation, tolerance, report, cmp_pc>>
scan_vars == <<lines, line_no, table_started, items, scan_pc>>
sess_vars == <<files, sess>>

-----------------------------------------------------------------------------
(* Strings *)

Char(s, i) == SubSeq(s, i, i)

IsDigit(c) == c \in {"0", "1", "2", "3", "4", "5", "6", "7", "8", "9"}

DigitVal(c) ==
    CASE c = "0" -> 0 [] c = "1" -> 1 [] c = "2" -> 2 [] c = "3" -> 3
      [] c = "4" -> 4 [] c = "5" -> 5 [] c = "6" -> 6 [] c = "7" -> 7
      [] c = "8" -> 8 [] c = "9" -> 9

IsLetter(c) ==
    c \in {"a", "b", "c", "d", "e", "f", "g", "h", "i", "j", "k", "l", "m",
           "n", "o", "p", "q", "r", "s", "t", "u", "v", "w", "x", "y", "z",
           "A", "B", "C", "D", "E", "F", "G", "H", "I", "J", "K", "L", "M",
           "N", "O", "P", "Q", "R", "S", "T", "U", "V", "W", "X", "Y", "Z"}

\* \w of the re module
IsWordChar(c) == IsDigit(c) \/ IsLetter(c) \/ c = "_"

\* \s of the re module and the default of str.strip
IsSpace(c) == c \in {" ", "\t", "\r", "\f", "\n"}

AllDigits(s) == \A i \in 1..Len(s) : IsDigit(Char(s, i))

\* str.replace(a, b) for a single character a
RECURSIVE Replace(_, _, _)
Replace(s, a, b) ==
    IF s = "" THEN ""
    ELSE (IF Head(s) = a THEN b ELSE Head(s)) \o Replace(Tail(s), a, b)

RECURSIVE LStrip(_)
LStrip(s) == IF s # "" /\ IsSpace(Head(s)) THEN LStrip(Tail(s)) ELSE s

RECURSIVE RStrip(_)
RStrip(s) ==
    IF s # "" /\ IsSpace(Char(s, Len(s)))
    THEN RStrip(SubSeq(s, 1, Len(s) - 1)) ELSE s

\* str.strip()
Strip(s) == RStrip(LStrip(s))

\* `marker in line`
Contains(line, marker) ==
    \E i \in 1..(Len(line) - Len(marker) + 1) :
        SubSeq(line, i, i + Len(marker) - 1) = marker

\* re.split(r"\s+", stripped) for a stripped, non-empty string
RECURSIVE SplitFrom(_, _, _)
SplitFrom(s, i, cur) ==
    IF i > Len(s) THEN <<cur>>
    ELSE IF IsSpace(Char(s, i))
         THEN IF i > 1 /\ IsSpace(Char(s, i - 1))
              THEN SplitFrom(s, i + 1, cur)
              ELSE <<cur>> \o SplitFrom(s, i + 1, "")
         ELSE SplitFrom(s, i + 1, cur \o Char(s, i))

Split(s) == SplitFrom(s, 1, "")

\* " ".join(parts)
RECURSIVE Join(_)
Join(parts) ==
    IF parts = <<>> THEN ""
    ELSE IF Len(parts) = 1 THEN parts[1]
    ELSE parts[1] \o " " \o Join(Tail(parts))

-----------------------------------------------------------------------------
(* float(): a value in hundredths, or the ValueError it raises *)

Hundred == 10 * 10

RECURSIVE DigitsVal(_)
DigitsVal(s) ==
    IF s = "" THEN 0
    ELSE 10 * DigitsVal(SubSeq(s, 1, Len(s) - 1)) + DigitVal(Char(s, Len(s)))

DotAt(s) ==
    IF \E i \in 1..Len(s) : Char(s, i) = "."
    THEN CHOOSE i \in 1..Len(s) :
             Char(s, i) = "." /\ \A j \in 1..(i - 1) : Char(s, j) # "."
    ELSE Len(s) + 1

\* the two fraction digits that the hundredths keep
Frac2(f) == SubSeq(f \o "00", 1, 2)

\* the digits and the point that follow the optional sign
Unsigned(t) == IF t # "" /\ Head(t) \in {"-", "+"} THEN Tail(t) ELSE t

IntPart(body) == SubSeq(body, 1, DotAt(body) - 1)

FracPart(body) == SubSeq(body, DotAt(body) + 1, Len(body))

\* digits, an optional point, digits; at least one digit
IsDecimal(body) ==
    /\ AllDigits(IntPart(body))
    /\ AllDigits(FracPart(body))
    /\ Len(IntPart(body)) + Len(FracPart(body)) > 0

Magnitude(body) == Hundred * DigitsVal(IntPart(body)) + DigitsVal(Frac2(FracPart(body)))

FloatOfStripped(t) ==
    IF IsDecimal(Unsigned(t))
    THEN [ok |-> TRUE,
          n |-> IF Head(t) = "-" THEN 0 - Magnitude(Unsigned(t)) ELSE Magnitude(Unsigned(t))]
    ELSE [ok |-> FALSE, n |-> 0]

\* float(str); [ok |-> FALSE] stands for ValueError
FloatOf(str) == FloatOfStripped(Strip(str))

-----------------------------------------------------------------------------
(* order_compare.py: values, line items, documents *)

\* A JSON value of a line item: None, a number (in hundredths), a string,
\* or any other object (a list, a dict).
NoneVal == [t |-> "none", n |-> 0, s |-> ""]
Num(n) == [t |-> "num", n |-> n, s |-> ""]
Str(s) == [t |-> "str", n |-> 0, s |-> s]
ObjVal == [t |-> "obj", n |-> 0, s |-> ""]

\* dict.get(key): None when the key is missing
Get(line, key) == IF key \in DOMAIN line THEN line[key] ELSE NoneVal

\* _parse_number without its try/except: the ValueError of float() escapes
ParseNumberUncaught(value) ==
    IF value.t = "none" THEN NoneVal
    ELSE IF value.t = "num" THEN Num(value.n)
    ELSE IF value.t = "str"
         THEN LET f == FloatOf(Replace(Replace(value.s, ".", ""), ",", "."))
              IN  IF f.ok THEN Num(f.n) ELSE [t |-> "raise", n |-> 0, s |-> ""]
    ELSE NoneVal

\* _parse_number(value): Optional[float]
ParseNumber(value) ==
    IF value.t = "none" THEN NoneVal
    ELSE IF value.t = "num" THEN Num(value.n)
    ELSE IF value.t = "str"
         THEN LET cleaned == Replace(Replace(value.s, ".", ""), ",", ".")
                  f == FloatOf(cleaned)
              IN  IF f.ok THEN Num(f.n) ELSE NoneVal
    ELSE NoneVal

\* original["righe"]: a missing key raises instead of yielding []
RigheStrict(doc) ==
    IF "righe" \in DOMAIN doc /\ doc.righe.t = "list"
    THEN [iter |-> TRUE, l |-> doc.righe.l]
    ELSE [iter |-> FALSE, l |-> <<>>]

\* original.get("righe", []) or []   (iter: the value can be iterated)
Righe(doc) ==
    IF "righe" \in DOMAIN doc /\ doc.righe.t = "list" /\ doc.righe.l # <<>>
    THEN [iter |-> TRUE, l |-> doc.righe.l]
    ELSE [iter |-> TRUE, l |-> <<>>]

\* the filter of the comprehension: line.get("codice") is not None
HasCode(line) == Get(line, "codice").t # "none"

\* the key of the comprehension: (line.get("codice") or "").strip()
\* codice is a string or None, as the record shape declares
KeyOf(line) == Strip(Get(line, "codice").s)

\* A dict is a sequence of entries [k, v] in insertion order; a later
\* assignment to a key already present replaces the value in place.
DictHas(d, k) == \E i \in 1..Len(d) : d[i].k = k

DictGet(d, k) == d[CHOOSE i \in 1..Len(d) : d[i].k = k].v

\* a dict that keeps the first value of a key instead of the last
DictPutFirst(d, k, v) == IF DictHas(d, k) THEN d ELSE Append(d, [k |-> k, v |-> v])

DictPut(d, k, v) ==
    IF DictHas(d, k)
    THEN [i \in 1..Len(d) |-> IF d[i].k = k THEN [k |-> k, v |-> v] ELSE d[i]]
    ELSE Append(d, [k |-> k, v |-> v])

\* {key(line): line for line in lines if line.get("codice") is not None}
RECURSIVE BuildIndex(_, _)
BuildIndex(ls, d) ==
    IF ls = <<>> THEN d
    ELSE BuildIndex(Tail(ls),
                    IF HasCode(Head(ls)) THEN DictPut(d, KeyOf(Head(ls)), Head(ls))
                    ELSE d)

Abs(x) == IF x < 0 THEN 0 - x ELSE x

\* the default of the tolerance parameter, 0.05
DefaultTolerance == [num |-> 5, den |-> 100]

\* abs(o_total - c_total) / o_total < tolerance, for o_total # 0 and a
\* tolerance num/den with den > 0, in exact arithmetic
RelDiffBelow(o_total, c_total, tol) ==
    IF o_total > 0
    THEN Abs(o_total - c_total) * tol.den < tol.num * o_total
    ELSE Abs(o_total - c_total) * tol.den > tol.num * o_total

\* the text of the note, its accented letter written plain
UnitNote == "Possibile differenza unita di misura (pezzi vs cartoni)."

IsNum(v) == v.t = "num"

\* a field comparison that forgives differences under the default tolerance
AddPairTolerant(discrepancy, key, o, c) ==
    IF /\ IsNum(o) /\ IsNum(c)
       /\ Abs(o.n - c.n) * DefaultTolerance.den >= DefaultTolerance.num * Abs(o.n)
       /\ o.n # c.n
    THEN discrepancy @@ (key :> <<o.n, c.n>>)
    ELSE discrepancy

\* if o is not None and c is not None and o != c: discrepancy[key] = (o, c)
AddPair(discrepancy, key, o, c) ==
    IF IsNum(o) /\ IsNum(c) /\ o.n # c.n
    THEN discrepancy @@ (key :> <<o.n, c.n>>)
    ELSE discrepancy

\* the unit mismatch test: discrepancy.setdefault("nota", []).append(...)
AddNote(discrepancy, o_qta, c_qta, o_total, c_total, tol) ==
    IF /\ IsNum(o_qta) /\ IsNum(c_qta) /\ o_qta.n # c_qta.n
       /\ IsNum(o_total) /\ IsNum(c_total)
       /\ o_total.n # 0
       /\ RelDiffBelow(o_total.n, c_total.n, tol)
    THEN discrepancy @@ ("nota" :> <<UnitNote>>)
    ELSE discrepancy

\* the three field comparisons of the first loop, in order
FieldPairs(code, o_line, c_line) ==
    AddPair(
        AddPair(
            AddPair([codice |-> code], "quantita",
                    ParseNumber(Get(o_line, "quantita")),
                    ParseNumber(Get(c_line, "quantita"))),
            "prezzo_unitario",
            ParseNumber(Get(o_line, "prezzo_unitario")),
            ParseNumber(Get(c_line, "prezzo_unitario"))),
        "totale_riga",
        ParseNumber(Get(o_line, "totale_riga")),
        ParseNumber(Get(c_line, "totale_riga")))

\* the body of the first loop for a code found in both dicts:
\* the discrepancy dict, a function from its keys
Discrepancy(code, o_line, c_line, tol) ==
    AddNote(FieldPairs(code, o_line, c_line),
            ParseNumber(Get(o_line, "quantita")),
            ParseNumber(Get(c_line, "quantita")),
            ParseNumber(Get(o_line, "totale_riga")),
            ParseNumber(Get(c_line, "totale_riga")),
            tol)

\* `len(discrepancy) > 0`: a bare code counts as a difference
HasDifferenceLoose(discrepancy) == Cardinality(DOMAIN discrepancy) > 0

\* len(discrepancy) > 1
HasDifference(discrepancy) == Cardinality(DOMAIN discrepancy) > 1

\* an exception escapes the body of the first loop
BodyRaises(o_line, c_line) ==
    \E k \in {"quantita", "prezzo_unitario", "totale_riga"} :
        \/ ParseNumber(Get(o_line, k)).t = "raise"
        \/ ParseNumber(Get(c_line, k)).t = "raise"

\* for code, o_line in orig_dict.items(): ...   from entry i on
RECURSIVE FirstLoop(_, _, _, _, _)
FirstLoop(orig_dict, conf_dict, tol, i, acc) ==
    IF i > Len(orig_dict) \/ acc.raised THEN acc
    ELSE LET code == orig_dict[i].k
             o_line == orig_dict[i].v
         IN  IF ~DictHas(conf_dict, code)
             THEN FirstLoop(orig_dict, conf_dict, tol, i + 1,
                            [acc EXCEPT !.missing = Append(@, o_line)])
             ELSE LET c_line == DictGet(conf_dict, code)
                      discrepancy == Discrepancy(code, o_line, c_line, tol)
                  IN  IF BodyRaises(o_line, c_line)
                      THEN [acc EXCEPT !.raised = TRUE]
                      ELSE FirstLoop(orig_dict, conf_dict, tol, i + 1,
                               IF HasDifference(discrepancy)
                               THEN [acc EXCEPT !.differences = Append(@, discrepancy)]
                               ELSE acc)

\* the second loop without its test: every confirmation record is extra
RECURSIVE SecondLoopAll(_, _, _)
SecondLoopAll(orig_dict, conf_dict, i) ==
    IF i > Len(conf_dict) THEN <<>>
    ELSE <<conf_dict[i].v>> \o SecondLoopAll(orig_dict, conf_dict, i + 1)

\* for code, c_line in conf_dict.items(): if code not in orig_dict: ...
RECURSIVE SecondLoop(_, _, _)
SecondLoop(orig_dict, conf_dict, i) ==
    IF i > Len(conf_dict) THEN <<>>
    ELSE (IF ~DictHas(orig_dict, conf_dict[i].k) THEN <<conf_dict[i].v>> ELSE <<>>)
         \o SecondLoop(orig_dict, conf_dict, i + 1)

RaisedReport ==
    [raised |-> TRUE, differenze |-> <<>>,
     righe_mancanti_nella_conferma |-> <<>>, righe_extra_nella_conferma |-> <<>>]

\* compare_orders(original, confirmation, tolerance=tol)
CompareOrders(orig, conf, tol) ==
    LET orig_lines == Righe(orig)
        conf_lines == Righe(conf)
        orig_dict == BuildIndex(orig_lines.l, <<>>)
        conf_dict == BuildIndex(conf_lines.l, <<>>)
        first == FirstLoop(orig_dict, conf_dict, tol, 1,
                           [raised |-> FALSE, differences |-> <<>>, missing |-> <<>>])
    IN  IF ~orig_lines.iter \/ ~conf_lines.iter \/ first.raised
        THEN RaisedReport
        ELSE [raised |-> FALSE,
              differenze |-> first.differences,
              righe_mancanti_nella_conferma |-> first.missing,
              righe_extra_nella_conferma |-> SecondLoop(orig_dict, conf_dict, 1)]

-----------------------------------------------------------------------------
(* Inputs of compare_orders *)

MaxLines == 2

\* sequences of at most n members of pool
SeqsUpTo(pool, n) == UNION {[1..k -> pool] : k \in 0..n}

Item(codice, quantita) == [codice |-> codice, quantita |-> quantita]

Priced(codice, quantita, prezzo, totale) ==
    [codice |-> codice, quantita |-> quantita,
     prezzo_unitario |-> prezzo, totale_riga |-> totale]

\* what parse_items emits: the line total is under `importo`
Parsed(codice, supplier, descr, um, quantita, prezzo, importo) ==
    [codice |-> Str(codice), codice_fornitore |-> Str(supplier),
     descrizione |-> Str(descr), unita_misura |-> Str(um),
     quantita |-> Num(quantita), prezzo_unitario |-> Num(prezzo),
     importo |-> Num(importo)]

\* records that differ in how the code is spelled, or lack one
KeyPool ==
    { [quantita |-> Num(100)],
      Item(NoneVal, Num(100)),
      Item(Str(""), Num(100)),
      Item(Str("  "), Num(200)),
      Item(Str("0001"), Num(100)),
      Item(Str(" 0001 "), Num(200)),
      Item(Str("0002"), Num(100)) }

\* one code, quantities and totals around the tolerance
TotalPool ==
    { Priced(Str("0001"), Num(1000), Num(1000), Num(10000)),
      Priced(Str("0001"), Num(100), Num(9800), Num(9800)),
      Priced(Str("0001"), Num(100), Num(9500), Num(9500)),
      Priced(Str("0001"), Num(1000), Num(-1000), Num(-10000)),
      Priced(Str("0001"), Num(200), Num(0), Num(0)) }

\* the records of the end-to-end scenario, as parse_items emits them
ImportoPool ==
    { Parsed("0001", "S1", "", "PZ", 500, 200, 1000),
      Parsed("0001", "S1", "", "PZ", 500, 250, 1250),
      Item(Str("0002"), Num(300)),
      Item(Str("0003"), Num(100)) }

\* fields that are strings, unparseable, None, missing or other objects
ValuePool ==
    { Priced(Str("0001"), Str("12,5"), Str("1.234,56"), Str("abc")),
      Priced(Str("0001"), Num(1250), ObjVal, NoneVal),
      Priced(Str("0001"), Str("1,2,3"), Num(123456), Str("10")),
      Priced(Str("0002"), Str(""), Str("12.5"), Num(1000)),
      [codice |-> Str("0002"), prezzo_unitario |-> Num(12500)] }

Families ==
    { [pool |-> KeyPool, tols |-> {DefaultTolerance}],
      [pool |-> TotalPool,
       tols |-> {DefaultTolerance, [num |-> 3, den |-> 100], [num |-> 10, den |-> 100]}],
      [pool |-> ImportoPool, tols |-> {DefaultTolerance}],
      [pool |-> ValuePool, tols |-> {DefaultTolerance, [num |-> 50, den |-> 100]}] }

NoRighe == [k \in {} |-> 0]

\* a document: no "righe" key, "righe": None, or "righe": [...]
Docs(pool) ==
    {NoRighe, [righe |-> [t |-> "none", l |-> <<>>]]}
    \cup {[righe |-> [t |-> "list", l |-> l]] : l \in SeqsUpTo(pool, MaxLines)}

ScanIdle ==
    /\ lines = <<>> /\ line_no = 1 /\ table_started = FALSE
    /\ items = <<>> /\ scan_pc = "returned"

SessIdle == files = <<>> /\ sess = <<>>

CmpIdle ==
    /\ original = NoRighe /\ confirmation = NoRighe
    /\ tolerance = DefaultTolerance /\ report = RaisedReport /\ cmp_pc = "idle"

Init ==
    /\ \E f \in Families :
          /\ original \in Docs(f.pool)
          /\ confirmation \in Docs(f.pool)
          /\ tolerance \in f.tols
    /\ report = RaisedReport
    /\ cmp_pc = "ready"
    /\ ScanIdle
    /\ SessIdle

\* result = compare_orders(original, confirmation, tolerance=tolerance)
Compare ==
    /\ cmp_pc = "ready"
    /\ report' = CompareOrders(original, confirmation, tolerance)
    /\ cmp_pc' = IF report'.raised THEN "raised" ELSE "returned"
    /\ UNCHANGED <<original, confirmation, tolerance, scan_vars, sess_vars>>

Next == Compare

Spec == Init /\ [][Next]_vars

-----------------------------------------------------------------------------
(* Vocabulary of the properties of compare_orders *)

\* the records of a document, [] when there are none
LinesOf(doc) == IF "righe" \in DOMAIN doc THEN doc.righe.l ELSE <<>>

Range(seq) == {seq[i] : i \in 1..Len(seq)}

\* a record with a code: present, not None, not empty once trimmed
Coded(line) ==
    /\ "codice" \in DOMAIN line
    /\ line.codice.t = "str"
    /\ Strip(line.codice.s) # ""

TrimmedCode(line) == Strip(line.codice.s)

CodesOf(ls) == {TrimmedCode(l) : l \in {x \in Range(ls) : Coded(x)}}

\* the last record of ls whose trimmed code is code
LastWith(ls, code) ==
    ls[CHOOSE i \in 1..Len(ls) :
          /\ Coded(ls[i]) /\ TrimmedCode(ls[i]) = code
          /\ \A j \in (i + 1)..Len(ls) : ~(Coded(ls[j]) /\ TrimmedCode(ls[j]) = code)]

\* the entries of `differenze` for a code
DiffsFor(code) == {i \in 1..Len(report.differenze) : report.differenze[i].codice = code}

Returned == cmp_pc = "returned"

\* the line total of a record, under whichever of the two keys carries it
EitherTotal(line) ==
    IF Get(line, "totale_riga").t # "none" THEN ParseNumber(line.totale_riga)
    ELSE ParseNumber(Get(line, "importo"))

\* C1: after compare_orders returns, for every code present in both
\* documents whose two records carry numeric, unequal line totals under
\* either key (`importo` or `totale_riga`), the discrepancy record of that
\* code holds totale_riga: (original_total, confirmation_total).
C1_TotalUnderEitherKey ==
    Returned =>
        \A code \in CodesOf(LinesOf(original)) \cap CodesOf(LinesOf(confirmation)) :
            LET ot == EitherTotal(LastWith(LinesOf(original), code))
                ct == EitherTotal(LastWith(LinesOf(confirmation), code))
            IN  (IsNum(ot) /\ IsNum(ct) /\ ot.n # ct.n) =>
                    \E i \in DiffsFor(code) :
                        /\ "totale_riga" \in DOMAIN report.differenze[i]
                        /\ report.differenze[i].totale_riga = <<ot.n, ct.n>>

\* C2: a record whose codice is absent, None, empty or empty once trimmed
\* takes no part in the comparison: every record of the two row lists has a
\* code, and no discrepancy record is keyed by the empty code.
C2_UncodedExcluded ==
    Returned =>
        /\ \A l \in Range(report.righe_mancanti_nella_conferma) : Coded(l)
        /\ \A l \in Range(report.righe_extra_nella_conferma) : Coded(l)
        /\ DiffsFor("") = {}

\* the entries of a row list whose trimmed code is code
RowsFor(rows, code) == {i \in 1..Len(rows) : Coded(rows[i]) /\ TrimmedCode(rows[i]) = code}

\* the report on one code is the report on the last records carrying it
LastWins(code) ==
    LET o_in == code \in CodesOf(LinesOf(original))
        c_in == code \in CodesOf(LinesOf(confirmation))
        mancanti == report.righe_mancanti_nella_conferma
        extra == report.righe_extra_nella_conferma
    IN  /\ (o_in /\ ~c_in) =>
              /\ Cardinality(RowsFor(mancanti, code)) = 1
              /\ \A i \in RowsFor(mancanti, code) :
                     mancanti[i] = LastWith(LinesOf(original), code)
        /\ (c_in /\ ~o_in) =>
              /\ Cardinality(RowsFor(extra, code)) = 1
              /\ \A i \in RowsFor(extra, code) :
                     extra[i] = LastWith(LinesOf(confirmation), code)
        /\ (o_in /\ c_in) =>
              LET d == Discrepancy(code, LastWith(LinesOf(original), code),
                                   LastWith(LinesOf(confirmation), code), tolerance)
              IN  /\ RowsFor(mancanti, code) = {} /\ RowsFor(extra, code) = {}
                  /\ \A i \in DiffsFor(code) : report.differenze[i] = d
                  /\ Cardinality(DiffsFor(code)) = IF DOMAIN d = {"codice"} THEN 0 ELSE 1

\* C4: last-write-wins. When several records of one side share a trimmed
\* code, only the last of them takes part: the discrepancies of the code are
\* those of the last record, and an unmatched code is reported once, by its
\* last record.
C4_LastWriteWins ==
    Returned =>
        \A code \in CodesOf(LinesOf(original)) \cup CodesOf(LinesOf(confirmation)) :
            LastWins(code)

\* a side holds two different records with the same trimmed code
HasDuplicate(ls) ==
    \E i, j \in 1..Len(ls) :
        /\ i < j /\ Coded(ls[i]) /\ Coded(ls[j])
        /\ TrimmedCode(ls[i]) = TrimmedCode(ls[j]) /\ ls[i] # ls[j]

C4_Witness ==
    /\ Returned
    /\ HasDuplicate(LinesOf(original))
    /\ report.differenze # <<>>
    /\ \E l \in Range(LinesOf(confirmation)) : Coded(l)

\* C5: the note is attached to the discrepancy record of a code present in
\* both documents if and only if both quantities are numeric and differ,
\* both totals are numeric, the original total is not zero and
\* |original_total - confirmation_total| < tolerance * |original_total|;
\* and the record with the note still holds the three field pairs.
C5_NoteIffTotalsNearlyAgree ==
    Returned =>
        \A code \in CodesOf(LinesOf(original)) \cap CodesOf(LinesOf(confirmation)) :
            LET o == LastWith(LinesOf(original), code)
                c == LastWith(LinesOf(confirmation), code)
                oq == ParseNumber(Get(o, "quantita"))
                cq == ParseNumber(Get(c, "quantita"))
                ot == ParseNumber(Get(o, "totale_riga"))
                ct == ParseNumber(Get(c, "totale_riga"))
                near == /\ IsNum(oq) /\ IsNum(cq) /\ oq.n # cq.n
                        /\ IsNum(ot) /\ IsNum(ct) /\ ot.n # 0
                        /\ Abs(ot.n - ct.n) * tolerance.den < tolerance.num * Abs(ot.n)
                noted == \E i \in DiffsFor(code) : "nota" \in DOMAIN report.differenze[i]
            IN  /\ noted <=> near
                /\ \A i \in DiffsFor(code) :
                       "nota" \in DOMAIN report.differenze[i] =>
                           /\ "quantita" \in DOMAIN report.differenze[i]
                           /\ report.differenze[i].quantita = <<oq.n, cq.n>>
                           /\ (ot.n # ct.n) => "totale_riga" \in DOMAIN report.differenze[i]

\* the keys of the index compare_orders builds for a side: the trimmed
\* codes of the records whose codice is not None
IndexKeys(doc) ==
    {Strip(l.codice.s) :
        l \in {x \in Range(LinesOf(doc)) : "codice" \in DOMAIN x /\ x.codice.t = "str"}}

RowKeys(rows) == {Strip(Get(rows[i], "codice").s) : i \in 1..Len(rows)}

DiffKeys == {report.differenze[i].codice : i \in 1..Len(report.differenze)}

\* C6: symmetry of absence. No code of righe_mancanti_nella_conferma is in
\* the confirmation index, no code of righe_extra_nella_conferma is in the
\* original index, every code of differenze is in both indexes, and the
\* three code sets are pairwise disjoint.
C6_SymmetryOfAbsence ==
    Returned =>
        LET mancanti == RowKeys(report.righe_mancanti_nella_conferma)
            extra == RowKeys(report.righe_extra_nella_conferma)
        IN  /\ mancanti \cap IndexKeys(confirmation) = {}
            /\ extra \cap IndexKeys(original) = {}
            /\ DiffKeys \subseteq IndexKeys(original) \cap IndexKeys(confirmation)
            /\ mancanti \cap extra = {}
            /\ mancanti \cap DiffKeys = {}
            /\ extra \cap DiffKeys = {}

C6_Witness ==
    /\ Returned
    /\ report.differenze # <<>>
    /\ report.righe_mancanti_nella_conferma # <<>>
    /\ report.righe_extra_nella_conferma # <<>>

\* every record has a non-empty code and no two records share one
UniqueCodes(ls) ==
    /\ \A i \in 1..Len(ls) : Coded(ls[i])
    /\ \A i, j \in 1..Len(ls) : i # j => TrimmedCode(ls[i]) # TrimmedCode(ls[j])

IndexedRows(doc) ==
    {l \in Range(LinesOf(doc)) :
        /\ "codice" \in DOMAIN l /\ l.codice.t = "str"
        /\ \E i \in 1..Len(LinesOf(doc)) :
              /\ LinesOf(doc)[i] = l
              /\ \A j \in (i + 1)..Len(LinesOf(doc)) :
                    ~("codice" \in DOMAIN LinesOf(doc)[j]
                      /\ LinesOf(doc)[j].codice.t = "str"
                      /\ Strip(LinesOf(doc)[j].codice.s) = Strip(l.codice.s))}

IndexedUnder(doc, key) ==
    LinesOf(doc)[CHOOSE i \in 1..Len(LinesOf(doc)) :
        /\ HasCode(LinesOf(doc)[i]) /\ KeyOf(LinesOf(doc)[i]) = key
        /\ \A j \in (i + 1)..Len(LinesOf(doc)) :
              ~(HasCode(LinesOf(doc)[j]) /\ KeyOf(LinesOf(doc)[j]) = key)]

ComparedFields == {"quantita", "prezzo_unitario", "totale_riga"}

\* both sides of a field parse to a number and the numbers are not equal
FieldDiffers(o_line, c_line, field) ==
    /\ IsNum(ParseNumber(Get(o_line, field)))
    /\ IsNum(ParseNumber(Get(c_line, field)))
    /\ ParseNumber(Get(o_line, field)).n # ParseNumber(Get(c_line, field)).n

\* C11: for every code present in both indexes, the pair (original_value,
\* confirmation_value) is recorded under a field name among quantita,
\* prezzo_unitario, totale_riga if and only if both sides of that field
\* parse to a number and the two numbers are not exactly equal, whatever the
\* tolerance; a record for the code is in differenze (once) if and only if
\* at least one such pair was recorded, and no record of differenze holds
\* the code alone.
C11_PairIffNumbersDiffer ==
    Returned =>
        /\ \A code \in IndexKeys(original) \cap IndexKeys(confirmation) :
              LET o == IndexedUnder(original, code)
                  c == IndexedUnder(confirmation, code)
              IN  /\ Cardinality(DiffsFor(code)) =
                         IF \E f \in ComparedFields : FieldDiffers(o, c, f) THEN 1 ELSE 0
                  /\ \A i \in DiffsFor(code) : \A f \in ComparedFields :
                         /\ f \in DOMAIN report.differenze[i] <=> FieldDiffers(o, c, f)
                         /\ f \in DOMAIN report.differenze[i] =>
                                report.differenze[i][f] =
                                    <<ParseNumber(Get(o, f)).n, ParseNumber(Get(c, f)).n>>
        /\ \A i \in 1..Len(report.differenze) :
              DOMAIN report.differenze[i] \cap ComparedFields # {}

\* a code of both indexes whose totals differ by less than the tolerance and
\* are reported, while another field of the same records does not differ
C11_Witness ==
    /\ Returned
    /\ \E code \in IndexKeys(original) \cap IndexKeys(confirmation) :
          LET o == IndexedUnder(original, code)
              c == IndexedUnder(confirmation, code)
          IN  /\ FieldDiffers(o, c, "totale_riga")
              /\ Abs(ParseNumber(Get(o, "totale_riga")).n - ParseNumber(Get(c, "totale_riga")).n)
                     * tolerance.den
                 < tolerance.num * Abs(ParseNumber(Get(o, "totale_riga")).n)
              /\ \E f \in ComparedFields : ~FieldDiffers(o, c, f)
              /\ \E i \in DiffsFor(code) : "totale_riga" \in DOMAIN report.differenze[i]

-----------------------------------------------------------------------------
(* parse_orders.py: parse_items, one action per way through the loop body *)

\* parse_orders._parse_number(token): the float, or ValueError (ok = FALSE)
ParseToken(token) == FloatOf(Replace(Replace(token, ".", ""), ",", "."))

\* "Codice Fornitore" in line and "Descrizione" in line
IsHeader(line) == Contains(line, "Codice Fornitore") /\ Contains(line, "Descrizione")

\* the totals line recognised only when it is nothing but the marker
IsTotalsExact(line) == Strip(line) = "Totale Merce"

\* "Totale Merce" in line
IsTotals(line) == Contains(line, "Totale Merce")

\* re.match(r"^\d{4}\b", stripped): four digits, then the end of the string
\* or a character that is not a letter, a digit or an underscore
RowPattern(stripped) ==
    /\ Len(stripped) >= 4
    /\ AllDigits(SubSeq(stripped, 1, 4))
    /\ (Len(stripped) = 4 \/ ~IsWordChar(Char(stripped, 5)))

\* len(parts) < 8, and len(remainder) < 6 for remainder = parts[2:]
TooShort(parts) == Len(parts) < 8 \/ Len(parts) - 2 < 6

\* remainder[-k] for remainder = parts[2:]
FromEnd(parts, k) == parts[Len(parts) - k + 1]

\* the try block: the three floats, or ValueError (ok = FALSE)
RowNumbers(parts) ==
    LET quantity == ParseToken(FromEnd(parts, 5))
        price_unit == ParseToken(FromEnd(parts, 4))
        importo == ParseToken(FromEnd(parts, 2))
    IN  [ok |-> quantity.ok /\ price_unit.ok /\ importo.ok,
         quantity |-> quantity.n, price_unit |-> price_unit.n, importo |-> importo.n]

\* the dict appended to items
RowItem(parts) ==
    LET nums == RowNumbers(parts)
        description == Strip(Join(SubSeq(parts, 3, Len(parts) - 6)))
    IN  Parsed(parts[1], parts[2], description, FromEnd(parts, 6),
               nums.quantity, nums.price_unit, nums.importo)

InLoop == scan_pc = "scan" /\ line_no <= Len(lines)

Continue ==
    /\ line_no' = line_no + 1
    /\ UNCHANGED <<lines, scan_pc, cmp_vars, sess_vars>>

\* if not table_started: ... continue
SeekHeader ==
    /\ InLoop /\ ~table_started
    /\ table_started' = IsHeader(lines[line_no])
    /\ UNCHANGED items
    /\ Continue

\* if "Totale Merce" in line: break
Break ==
    /\ InLoop /\ table_started
    /\ IsTotals(lines[line_no])
    /\ scan_pc' = "broke"
    /\ UNCHANGED <<lines, line_no, table_started, items, cmp_vars, sess_vars>>

InTable == InLoop /\ table_started /\ ~IsTotals(lines[line_no])

\* if not stripped: continue
SkipBlank ==
    /\ InTable
    /\ Strip(lines[line_no]) = ""
    /\ UNCHANGED <<table_started, items>>
    /\ Continue

\* the row pattern does not match: the body of the if is not entered
SkipNoise ==
    /\ InTable
    /\ Strip(lines[line_no]) # ""
    /\ ~RowPattern(Strip(lines[line_no]))
    /\ UNCHANGED <<table_started, items>>
    /\ Continue

\* if len(parts) < 8: continue
SkipMalformed ==
    /\ InTable
    /\ RowPattern(Strip(lines[line_no]))
    /\ TooShort(Split(Strip(lines[line_no])))
    /\ UNCHANGED <<table_started, items>>
    /\ Continue

\* except ValueError: continue
SkipInvalidNumber ==
    /\ InTable
    /\ RowPattern(Strip(lines[line_no]))
    /\ ~TooShort(Split(Strip(lines[line_no])))
    /\ ~RowNumbers(Split(Strip(lines[line_no]))).ok
    /\ UNCHANGED <<table_started, items>>
    /\ Continue

\* items.append({...})
AppendItem ==
    /\ InTable
    /\ RowPattern(Strip(lines[line_no]))
    /\ ~TooShort(Split(Strip(lines[line_no])))
    /\ RowNumbers(Split(Strip(lines[line_no]))).ok
    /\ items' = Append(items, RowItem(Split(Strip(lines[line_no]))))
    /\ UNCHANGED table_started
    /\ Continue

\* return items, when the loop is exhausted or left by break
Return ==
    /\ \/ scan_pc = "scan" /\ line_no > Len(lines)
       \/ scan_pc = "broke"
    /\ scan_pc' = "returned"
    /\ UNCHANGED <<lines, line_no, table_started, items, cmp_vars, sess_vars>>

\* parse_items on a text, as a function: the items it returns
RECURSIVE ScanFrom(_, _, _, _)
ScanFrom(ls, i, started, acc) ==
    IF i > Len(ls) THEN acc
    ELSE IF ~started THEN ScanFrom(ls, i + 1, IsHeader(ls[i]), acc)
    ELSE IF IsTotals(ls[i]) THEN acc
    ELSE LET stripped == Strip(ls[i])
             parts == Split(stripped)
         IN  IF stripped # "" /\ RowPattern(stripped) /\ ~TooShort(parts)
                /\ RowNumbers(parts).ok
             THEN ScanFrom(ls, i + 1, started, Append(acc, RowItem(parts)))
             ELSE ScanFrom(ls, i + 1, started, acc)

ParseItems(ls) == ScanFrom(ls, 1, FALSE, <<>>)

MaxTextLines == 4

\* lines of a pdftotext -layout page: a header, rows well and ill formed,
\* noise and the totals line
LinePool ==
    { "Codice Fornitore  Descrizione UM",
      "0001 S1 PZ 5 2,00 0 10,00 22",
      "  0002 S2 Vite M4  PZ 1.000 0,50 0 500,00 22",
      "0003 S3 PZ 5 2,00 10,00 22",
      "0004 S4 PZ 5 2,00 0 n.d. 22",
      "2025-11-28 S6 PZ 5 2,00 0 10,00 22",
      "12345 S5 PZ 5 2,00 0 10,00 22",
      "   ",
      " Totale Merce 520,00" }

ParseInit ==
    /\ lines \in SeqsUpTo(LinePool, MaxTextLines)
    /\ line_no = 1
    /\ table_started = FALSE
    /\ items = <<>>
    /\ scan_pc = "scan"
    /\ CmpIdle
    /\ SessIdle

ParseNext ==
    \/ SeekHeader
    \/ Break
    \/ SkipBlank
    \/ SkipNoise
    \/ SkipMalformed
    \/ SkipInvalidNumber
    \/ AppendItem
    \/ Return

ParseSpec == ParseInit /\ [][ParseNext]_vars

-----------------------------------------------------------------------------
(* Properties of parse_items *)

Min(a, b) == IF a < b THEN a ELSE b

\* the first line holding both header markers, Len(lines) + 1 if none
FirstHeader ==
    LET hs == {i \in 1..Len(lines) :
                  Contains(lines[i], "Codice Fornitore") /\ Contains(lines[i], "Descrizione")}
    IN  IF hs = {} THEN Len(lines) + 1 ELSE CHOOSE i \in hs : \A j \in hs : i <= j

\* the first line after the header holding the terminal marker
FirstTotals ==
    LET ts == {i \in (FirstHeader + 1)..Len(lines) : Contains(lines[i], "Totale Merce")}
    IN  IF ts = {} THEN Len(lines) + 1 ELSE CHOOSE i \in ts : \A j \in ts : i <= j

\* the lines of the table the loop has gone through
TableScanned == SubSeq(lines, FirstHeader + 1, Min(FirstTotals, line_no) - 1)

\* a token made of exactly four digits
FourDigitCode(token) == Len(token) = 4 /\ AllDigits(token)

\* the row the claim accepts: a four-digit code token first, at least eight
\* tokens, and quantity, unit price and line total that parse
ValidRow(line) ==
    LET parts == Split(Strip(line))
    IN  /\ Strip(line) # ""
        /\ FourDigitCode(parts[1])
        /\ Len(parts) >= 8
        /\ ParseToken(parts[Len(parts) - 4]).ok
        /\ ParseToken(parts[Len(parts) - 3]).ok
        /\ ParseToken(parts[Len(parts) - 1]).ok

\* the complete record of a valid row
FullRecord(line) ==
    LET parts == Split(Strip(line))
        n == Len(parts)
    IN  [codice |-> Str(parts[1]), codice_fornitore |-> Str(parts[2]),
         descrizione |-> Str(Join(SubSeq(parts, 3, n - 6))),
         unita_misura |-> Str(parts[n - 5]),
         quantita |-> Num(ParseToken(parts[n - 4]).n),
         prezzo_unitario |-> Num(ParseToken(parts[n - 3]).n),
         importo |-> Num(ParseToken(parts[n - 1]).n)]

RECURSIVE ValidRecords(_)
ValidRecords(ls) ==
    IF ls = <<>> THEN <<>>
    ELSE (IF ValidRow(Head(ls)) THEN <<FullRecord(Head(ls))>> ELSE <<>>)
         \o ValidRecords(Tail(ls))

\* C8: row rejection is silent and all-or-nothing. At every point of the
\* scan the items are exactly the complete records, in source order, of the
\* table lines gone through that start with a four-digit code token, split
\* into at least eight tokens and whose quantity, unit price and line total
\* parse; every other line leaves no record and does not stop the scan.
C8_RowEmittedIffValid == items = ValidRecords(TableScanned)

\* the rows the loop accepts among ls, by the row pattern of the code
RECURSIVE AcceptedRows(_)
AcceptedRows(ls) ==
    IF ls = <<>> THEN <<>>
    ELSE LET stripped == Strip(Head(ls))
             parts == Split(stripped)
         IN  (IF stripped # "" /\ RowPattern(stripped) /\ ~TooShort(parts)
                 /\ RowNumbers(parts).ok
              THEN <<RowItem(parts)>> ELSE <<>>)
             \o AcceptedRows(Tail(ls))

\* 0: SEEKING_HEADER, 1: IN_TABLE, 2: TERMINAL
Phase == IF scan_pc # "scan" THEN 2 ELSE IF table_started THEN 1 ELSE 0

C10_Emitted ==
    /\ items = AcceptedRows(TableScanned)
    /\ (scan_pc = "scan" /\ line_no <= FirstHeader) => ~table_started
    /\ scan_pc = "broke" => line_no = FirstTotals

C10_Step ==
    /\ Phase' >= Phase
    /\ Phase = 2 => items' = items
    /\ Phase' = 0 => items' = <<>>

\* C10: the scan is the automaton SEEKING_HEADER -> IN_TABLE -> TERMINAL and
\* never steps back. The items come only from the lines after the first
\* line holding both header markers and before the first later line holding
\* the terminal marker; nothing is emitted at or before the header, at the
\* terminal line or after it, and without a header nothing is emitted.
C10_Automaton == [](C10_Emitted) /\ [][C10_Step]_vars

\* returned from a text whose terminal line is followed by a header line
\* and by a well-formed row
C10_Witness ==
    /\ scan_pc = "returned"
    /\ FirstTotals < Len(lines)
    /\ \E i, j \in (FirstTotals + 1)..Len(lines) :
          /\ i < j
          /\ IsHeader(lines[i])
          /\ AcceptedRows(<<lines[j]>>) # <<>>
    /\ items = <<>>


\* C8 without its reading of the code token: the records are those of the
\* table lines the row pattern of the code accepts (four digits, then a
\* word boundary), with at least eight tokens and three numbers that parse.
RowEmittedIffAccepted ==
    /\ items = AcceptedRows(TableScanned)
    /\ \A i \in 1..Len(items) :
          DOMAIN items[i] = {"codice", "codice_fornitore", "descrizione",
                             "unita_misura", "quantita", "prezzo_unitario", "importo"}

-----------------------------------------------------------------------------
(* app.py and api.py: upload, save, parse, compare *)

\* An uploaded PDF is modelled by the text pdftotext -layout gives for it.
HeaderLine == "Codice Fornitore  Descrizione UM"

PdfOrder == <<HeaderLine, "0001 S1 PZ 5 2,00 0 10,00 22", "0002 S2 PZ 3 1,00 0 3,00 22">>

PdfConfirm == <<HeaderLine, "0001 S1 PZ 5 2,50 0 12,50 22", "0003 S3 PZ 1 1,00 0 1,00 22">>

Pdfs == {PdfOrder, PdfConfirm}

Sessions == {"s1", "s2"}

\* the names tempfile.NamedTemporaryFile can pick
TmpNames == {"/tmp/tmp1.pdf", "/tmp/tmp2.pdf", "/tmp/tmp3.pdf", "/tmp/tmp4.pdf"}

NoFiles == [p \in {} |-> <<>>]

\* {"righe": items}
DocOf(its) == [righe |-> [t |-> "list", l |-> its]]

\* open(path, "wb").write(data) and FileStorage.save(path)
WriteFile(fs, path, data) == [p \in DOMAIN fs \cup {path} |-> IF p = path THEN data ELSE fs[p]]

\* os.remove(path), FileNotFoundError ignored
RemoveFile(fs, path) == [p \in DOMAIN fs \ {path} |-> fs[p]]

SessionInit ==
    /\ files = NoFiles
    /\ sess \in [Sessions ->
                    [kind : {"app", "api"}, pc : {"save_order"},
                     order : Pdfs, confirm : Pdfs,
                     order_path : {""}, confirm_path : {""},
                     order_items : {<<>>}, confirm_items : {<<>>},
                     result : {RaisedReport}]]
    /\ CmpIdle
    /\ ScanIdle

Unchanged == UNCHANGED <<cmp_vars, scan_vars>>

\* app.py: with open("order_temp.pdf", "wb") as f: f.write(...)
AppSaveOrder(s) ==
    /\ sess[s].kind = "app" /\ sess[s].pc = "save_order"
    /\ files' = WriteFile(files, "order_temp.pdf", sess[s].order)
    /\ sess' = [sess EXCEPT ![s].order_path = "order_temp.pdf", ![s].pc = "save_confirm"]
    /\ Unchanged

\* app.py: with open("confirm_temp.pdf", "wb") as f: f.write(...)
AppSaveConfirm(s) ==
    /\ sess[s].kind = "app" /\ sess[s].pc = "save_confirm"
    /\ files' = WriteFile(files, "confirm_temp.pdf", sess[s].confirm)
    /\ sess' = [sess EXCEPT ![s].confirm_path = "confirm_temp.pdf", ![s].pc = "parse_order"]
    /\ Unchanged

\* api.py: NamedTemporaryFile(delete=False, suffix=".pdf"); order_file.save
ApiSaveOrder(s) ==
    /\ sess[s].kind = "api" /\ sess[s].pc = "save_order"
    /\ \E path \in TmpNames \ DOMAIN files :
          /\ files' = WriteFile(files, path, sess[s].order)
          /\ sess' = [sess EXCEPT ![s].order_path = path, ![s].pc = "save_confirm"]
    /\ Unchanged

\* api.py: NamedTemporaryFile(delete=False, suffix=".pdf"); confirm_file.save
ApiSaveConfirm(s) ==
    /\ sess[s].kind = "api" /\ sess[s].pc = "save_confirm"
    /\ \E path \in TmpNames \ DOMAIN files :
          /\ files' = WriteFile(files, path, sess[s].confirm)
          /\ sess' = [sess EXCEPT ![s].confirm_path = path, ![s].pc = "parse_order"]
    /\ Unchanged

\* order_items = parse_items(order_path)
ParseOrder(s) ==
    /\ sess[s].pc = "parse_order"
    /\ sess' = [sess EXCEPT ![s].order_items = ParseItems(files[sess[s].order_path]),
                            ![s].pc = "parse_confirm"]
    /\ UNCHANGED files
    /\ Unchanged

\* confirm_items = parse_items(confirm_path)
ParseConfirm(s) ==
    /\ sess[s].pc = "parse_confirm"
    /\ sess' = [sess EXCEPT ![s].confirm_items = ParseItems(files[sess[s].confirm_path]),
                            ![s].pc = "compare"]
    /\ UNCHANGED files
    /\ Unchanged

\* result = compare_orders({"righe": order_items}, {"righe": confirm_items})
CompareItems(s) ==
    /\ sess[s].pc = "compare"
    /\ sess' = [sess EXCEPT
                  ![s].result = CompareOrders(DocOf(sess[s].order_items),
                                              DocOf(sess[s].confirm_items),
                                              DefaultTolerance),
                  ![s].pc = IF sess[s].kind = "api" THEN "cleanup" ELSE "done"]
    /\ UNCHANGED files
    /\ Unchanged

\* api.py, finally: os.remove(order_path); os.remove(confirm_path)
ApiCleanup(s) ==
    /\ sess[s].kind = "api" /\ sess[s].pc = "cleanup"
    /\ files' = RemoveFile(RemoveFile(files, sess[s].order_path), sess[s].confirm_path)
    /\ sess' = [sess EXCEPT ![s].pc = "done"]
    /\ Unchanged

SessionNext ==
    \E s \in Sessions :
        \/ AppSaveOrder(s)
        \/ AppSaveConfirm(s)
        \/ ApiSaveOrder(s)
        \/ ApiSaveConfirm(s)
        \/ ParseOrder(s)
        \/ ParseConfirm(s)
        \/ CompareItems(s)
        \/ ApiCleanup(s)

SessionSpec == SessionInit /\ [][SessionNext]_vars

\* what an invocation reports when nothing interferes with it
OwnResult(s) ==
    CompareOrders(DocOf(ParseItems(sess[s].order)), DocOf(ParseItems(sess[s].confirm)),
                  DefaultTolerance)

\* C3: invocations that interleave do not affect one another. Every
\* finished invocation, of app.py or of api.py, reports the comparison of
\* its own order document with its own confirmation document.
C3_InvocationsIsolated ==
    \A s \in Sessions : sess[s].pc = "done" => sess[s].result = OwnResult(s)

====
